---- MODULE Spec2Model ----
(***************************************************************************)
(* create_statistics.py: the log analyzer (analyze_torfs_output), the      *)
(* report renderer (generate_report) and the command-line driver.          *)
(*                                                                         *)
(* A log line is represented by what the four compiled patterns find in    *)
(* it: for each pattern either <<>> (re.search returned None) or the tuple *)
(* of captured groups.  Captured numbers are digit strings (sequences of   *)
(* digits) and relay identifiers are sequences of characters, so that      *)
(* int() and str.endswith('*') are computed, not assumed.                  *)
(***************************************************************************)
EXTENDS Integers, Sequences, FiniteSets, TLC

\* ---------------------------------------------------------------- bounds
MaxLines == 3       \* lines the input file may hold
MaxClient == 1      \* largest client index written in a circuit-usage line

\* ------------------------------------------------------- input alphabet
\* Python's None.
None == [none |-> TRUE]

\* Relay identifiers (\S+) written in the guard, middle and exit position
\* of the circuit-usage lines: a name, optionally ending in the marker.
GuardTokens == { <<"a">>, <<"a", "*">>, <<"b", "*">> }
MiddleTokens == { <<"a">> }
ExitTokens == { <<"a">>, <<"a", "*">> }

\* Digit strings (\d+) used for client indices.
ClientTexts == { <<c>> : c \in 0..MaxClient }

\* Digit strings used in relay-count and adversary-count lines.
CountTexts == { <<0>>, <<2>> }

NoMatch == <<>>

Line(ep, rl, ad, ci) == [epoch |-> ep, relay |-> rl, adv |-> ad, circuit |-> ci]

CircuitGroups ==
    { <<c, g, m, e>> : c \in ClientTexts, g \in GuardTokens, m \in MiddleTokens, e \in ExitTokens }
RelayGroups == { <<t, g, e>> : t \in CountTexts, g \in CountTexts, e \in CountTexts }
AdvGroups == { <<g, e>> : g \in CountTexts, e \in CountTexts }

\* A marked middle relay, and a client index written "01".
MarkedMiddle == << (<<0>>), (<<"a">>), (<<"a", "*">>), (<<"a">>) >>
LeadingZero == << (<<0, 1>>), (<<"a", "*">>), (<<"a">>), (<<"a">>) >>

\* Lines in which more than one pattern finds a match.
EpochAndCircuit == Line(TRUE, NoMatch, NoMatch, << (<<0>>), (<<"a", "*">>), (<<"a">>), (<<"a">>) >>)
RelayAndAdv == Line(FALSE, << (<<2>>), (<<2>>), (<<2>>) >>, << (<<2>>), (<<2>>) >>, NoMatch)

Lines ==
    { Line(TRUE, NoMatch, NoMatch, NoMatch), Line(FALSE, NoMatch, NoMatch, NoMatch) }
    \cup { Line(FALSE, r, NoMatch, NoMatch) : r \in RelayGroups }
    \cup { Line(FALSE, NoMatch, a, NoMatch) : a \in AdvGroups }
    \cup { Line(FALSE, NoMatch, NoMatch, c) : c \in CircuitGroups \cup { MarkedMiddle, LeadingZero } }
    \cup { EpochAndCircuit, RelayAndAdv }

\* ------------------------------------------------------ pure functions
\* int(): the decimal value of a digit string.
RECURSIVE int(_)
int(ds) == IF Len(ds) = 0 THEN 0 ELSE 10 * int(SubSeq(ds, 1, Len(ds) - 1)) + ds[Len(ds)]

\* str.endswith('*')
endswith_star(tok) == Len(tok) > 0 /\ tok[Len(tok)] = "*"

\* re.search(...) is not None
Matched(m) == m # NoMatch

\* defaultdict access d[k]: the stored value, or the default factory's.
Get(d, k, default) == IF k \in DOMAIN d THEN d[k] ELSE default

\* Variant: the dict is replaced by one holding the new entry only.
Put_fresh(d, k, v) == [x \in {k} |-> v]

\* d[k] = v on a dict
Put(d, k, v) == [x \in (DOMAIN d) \cup {k} |-> IF x = k THEN v ELSE d[x]]

EmptyDict == [x \in {} |-> 0]

RECURSIVE SumValues(_)
SumValues(d) ==
    IF DOMAIN d = {} THEN 0
    ELSE LET k == CHOOSE x \in DOMAIN d : TRUE
         IN  d[k] + SumValues([x \in (DOMAIN d) \ {k} |-> d[x]])

Max(S) == CHOOSE x \in S : \A y \in S : y <= x

\* (g_comp, m_comp, e_comp) of a circuit-usage match
comp_type(ci) == << endswith_star(ci[2]), endswith_star(ci[3]), endswith_star(ci[4]) >>

\* Variant: only the guard position is tested.
is_compromised_guard_only(ci) == endswith_star(ci[2])

is_compromised(ci) == endswith_star(ci[2]) \/ endswith_star(ci[3]) \/ endswith_star(ci[4])

circuit_id(ci) == << ci[2], ci[3], ci[4] >>

client_id(ci) == int(ci[1])

\* ---------------------------------------------------------------- state
VARIABLES
    pc,                   \* position of the run
    nread,                \* lines delivered by the file iterator so far
    line,                 \* loop variable: the line being processed
    all_circuits,
    circuits_compromised,
    client_exposures,
    epoch_data,
    current_epoch,
    relay_stats,
    seen,                 \* history: client index -> identities in its circuit-usage lines
    markers,              \* history: epoch-marker lines consumed
    repeated,             \* history: the line just processed is a circuit-usage line whose
                          \*          identity occurred in an earlier such line of its client
    last_relay,           \* history: groups of the latest relay-count line handled
    last_adv,             \* history: groups of the latest adversary-count line handled
    results,              \* value returned by analyze_torfs_output
    report,               \* value returned by generate_report
    out_file,             \* content of the file at the output path
    out_opened,           \* the output path has been opened by this run
    stdout,               \* what the run printed
    exception,            \* uncaught exception that ended the run
    exit_status           \* process exit status, -1 while the process runs

avars == << nread, line, all_circuits, circuits_compromised, client_exposures,
            epoch_data, current_epoch, relay_stats, seen, markers, repeated,
            last_relay, last_adv >>

dvars == << results, report, out_file, out_opened, stdout, exception, exit_status >>

vars == << pc, avars, dvars >>

InitAnalysis ==
    /\ nread = 0
    /\ line = None
    /\ all_circuits = {}
    /\ circuits_compromised = EmptyDict
    /\ client_exposures = EmptyDict
    /\ epoch_data = <<>>
    /\ current_epoch = None
    /\ relay_stats = [total_relays |-> 0, total_guards |-> 0, total_exits |-> 0,
                      adv_guards |-> 0, adv_exits |-> 0]
    /\ seen = EmptyDict
    /\ markers = 0
    /\ repeated = FALSE
    /\ last_relay = NoMatch
    /\ last_adv = NoMatch

\* Content of the output path before the run: an earlier report.
OldContent == << "old" >>

Init ==
    /\ pc = "start"
    /\ InitAnalysis
    /\ results = None
    /\ report = None
    /\ out_file = OldContent
    /\ out_opened = FALSE
    /\ stdout = <<>>
    /\ exception = "none"
    /\ exit_status = -1

\* An element of epoch_data is a dict of its own, or the very dict object
\* that relay_stats names, whose content follows every later update.
Running == [ref |-> "relay_stats"]

\* the content of an element of epoch_data, given that of relay_stats
Deref(e, running) == IF e = Running THEN running ELSE e

\* the contents of the list epoch_data
Contents(epochs, running) == [i \in 1..Len(epochs) |-> Deref(epochs[i], running)]

\* Variant: no copy is taken, the list element is the running dict itself.
copy_reference(d) == Running

\* relay_stats.copy()
copy(d) == d

\* Variant: the test always succeeds.
Truthy_always(v) == TRUE

\* `if current_epoch:`
Truthy(v) == v # None

\* for line in f: the iterator delivers one more line
ReadLine(l) ==
    /\ pc = "scan"
    /\ nread < MaxLines
    /\ nread' = nread + 1
    /\ line' = l
    /\ UNCHANGED dvars

\* Variant: the running snapshot is reset when a marker is read.
EpochLine_reset ==
    \E l \in Lines :
        /\ ReadLine(l)
        /\ l.epoch
        /\ epoch_data' = IF Truthy(current_epoch) THEN Append(epoch_data, copy(relay_stats))
                                                  ELSE epoch_data
        /\ current_epoch' = l
        /\ markers' = markers + 1
        /\ repeated' = FALSE
        /\ relay_stats' = [total_relays |-> 0, total_guards |-> 0, total_exits |-> 0,
                           adv_guards |-> 0, adv_exits |-> 0]
        /\ UNCHANGED << pc, all_circuits, circuits_compromised, client_exposures,
                        seen, last_relay, last_adv >>

EpochLine ==
    \E l \in Lines :
        /\ ReadLine(l)
        /\ l.epoch
        /\ epoch_data' = IF Truthy(current_epoch) THEN Append(epoch_data, copy(relay_stats))
                                                  ELSE epoch_data
        /\ current_epoch' = l
        /\ markers' = markers + 1
        /\ repeated' = FALSE
        /\ UNCHANGED << pc, all_circuits, circuits_compromised, client_exposures,
                        relay_stats, seen, last_relay, last_adv >>

\* Variant: no `continue` after the relay-count update, so the adversary
\* pattern is tried on the same line.
RelayLine_no_continue ==
    \E l \in Lines :
        /\ ReadLine(l)
        /\ ~ l.epoch
        /\ Matched(l.relay)
        /\ relay_stats' =
              IF Matched(l.adv)
              THEN [total_relays |-> int(l.relay[1]), total_guards |-> int(l.relay[2]),
                    total_exits |-> int(l.relay[3]),
                    adv_guards |-> int(l.adv[1]), adv_exits |-> int(l.adv[2])]
              ELSE [relay_stats EXCEPT !.total_relays = int(l.relay[1]),
                                       !.total_guards = int(l.relay[2]),
                                       !.total_exits = int(l.relay[3])]
        /\ repeated' = FALSE
        /\ last_relay' = l.relay
        /\ UNCHANGED << pc, all_circuits, circuits_compromised, client_exposures,
                        epoch_data, current_epoch, seen, markers, last_adv >>

RelayLine ==
    \E l \in Lines :
        /\ ReadLine(l)
        /\ ~ l.epoch
        /\ Matched(l.relay)
        /\ relay_stats' = [relay_stats EXCEPT !.total_relays = int(l.relay[1]),
                                              !.total_guards = int(l.relay[2]),
                                              !.total_exits = int(l.relay[3])]
        /\ repeated' = FALSE
        /\ last_relay' = l.relay
        /\ UNCHANGED << pc, all_circuits, circuits_compromised, client_exposures,
                        epoch_data, current_epoch, seen, markers, last_adv >>

\* Variant: the dict is rebuilt from the two adversary counts.
AdvLine_clobber ==
    \E l \in Lines :
        /\ ReadLine(l)
        /\ ~ l.epoch
        /\ ~ Matched(l.relay)
        /\ Matched(l.adv)
        /\ relay_stats' = [total_relays |-> 0, total_guards |-> 0, total_exits |-> 0,
                           adv_guards |-> int(l.adv[1]), adv_exits |-> int(l.adv[2])]
        /\ repeated' = FALSE
        /\ last_adv' = l.adv
        /\ UNCHANGED << pc, all_circuits, circuits_compromised, client_exposures,
                        epoch_data, current_epoch, seen, markers, last_relay >>

AdvLine ==
    \E l \in Lines :
        /\ ReadLine(l)
        /\ ~ l.epoch
        /\ ~ Matched(l.relay)
        /\ Matched(l.adv)
        /\ relay_stats' = [relay_stats EXCEPT !.adv_guards = int(l.adv[1]),
                                              !.adv_exits = int(l.adv[2])]
        /\ repeated' = FALSE
        /\ last_adv' = l.adv
        /\ UNCHANGED << pc, all_circuits, circuits_compromised, client_exposures,
                        epoch_data, current_epoch, seen, markers, last_relay >>

\* Variant: every compromised line counts, seen before or not.
first_seen_compromised_every_line(ci, circuits) == is_compromised(ci)

\* Variant: every identity not seen before counts, marked or not.
first_seen_compromised_any(ci, circuits) == circuit_id(ci) \notin circuits

\* `if is_compromised and circuit_id not in all_circuits`
first_seen_compromised(ci, circuits) == is_compromised(ci) /\ circuit_id(ci) \notin circuits

CircuitLine ==
    \E l \in Lines :
        /\ ReadLine(l)
        /\ ~ l.epoch
        /\ ~ Matched(l.relay)
        /\ ~ Matched(l.adv)
        /\ Matched(l.circuit)
        /\ LET ci == l.circuit
               c == client_id(ci)
               t == comp_type(ci)
           IN  /\ IF first_seen_compromised(ci, all_circuits)
                  THEN /\ circuits_compromised' =
                              Put(circuits_compromised, t, Get(circuits_compromised, t, 0) + 1)
                       /\ client_exposures' =
                              Put(client_exposures, c, Get(client_exposures, c, {}) \cup {t})
                  ELSE UNCHANGED << circuits_compromised, client_exposures >>
               /\ all_circuits' = all_circuits \cup { circuit_id(ci) }
               /\ seen' = Put(seen, c, Get(seen, c, {}) \cup { circuit_id(ci) })
               /\ repeated' = (circuit_id(ci) \in Get(seen, c, {}))
        /\ UNCHANGED << pc, epoch_data, current_epoch, relay_stats, markers,
                        last_relay, last_adv >>

SkipLine ==
    \E l \in Lines :
        /\ ReadLine(l)
        /\ ~ l.epoch
        /\ ~ Matched(l.relay)
        /\ ~ Matched(l.adv)
        /\ ~ Matched(l.circuit)
        /\ repeated' = FALSE
        /\ UNCHANGED << pc, all_circuits, circuits_compromised, client_exposures,
                        epoch_data, current_epoch, relay_stats, seen, markers,
                        last_relay, last_adv >>

\* ------------------------------------------- end of analyze_torfs_output
\* Variant: every vector counted once, however many clients carry it.
client_counts_of_once(exposures) ==
    [t \in UNION { exposures[c] : c \in DOMAIN exposures } |-> 1]

\* client_counts: for every vector, the number of clients exposed to it
client_counts_of(exposures) ==
    LET types == UNION { exposures[c] : c \in DOMAIN exposures }
    IN  [t \in types |-> Cardinality({ c \in DOMAIN exposures : t \in exposures[c] })]

\* Variant: the number of keys instead of the largest key plus one.
total_clients_of_len(exposures) == Cardinality(DOMAIN exposures)

\* Variant: the largest key, without the plus one.
total_clients_of_max(exposures) ==
    IF DOMAIN exposures # {} THEN Max(DOMAIN exposures) ELSE 0

\* `max(client_exposures.keys()) + 1 if client_exposures else 0`
total_clients_of(exposures) ==
    IF DOMAIN exposures # {} THEN Max(DOMAIN exposures) + 1 ELSE 0

\* the returned dict
Results(circuits, compromised, exposures, epochs) ==
    [ total_circuits       |-> Cardinality(circuits),
      compromised_circuits |-> SumValues(compromised),
      circuit_counts       |-> compromised,
      total_clients        |-> total_clients_of(exposures),
      compromised_clients  |-> Cardinality(DOMAIN exposures),
      client_counts        |-> client_counts_of(exposures),
      client_exposures     |-> exposures,
      epoch_data           |-> epochs ]

\* The iterator is exhausted: final flush (of the running dict itself, no
\* copy), client counts, return.
Finalize ==
    /\ pc = "scan"
    /\ epoch_data' = IF Truthy(current_epoch) THEN Append(epoch_data, Running)
                                              ELSE epoch_data
    /\ results' = Results(all_circuits, circuits_compromised, client_exposures,
                          Contents(epoch_data', relay_stats))
    /\ pc' = "analyzed"
    /\ UNCHANGED << nread, line, all_circuits, circuits_compromised, client_exposures,
                    current_epoch, relay_stats, seen, markers, repeated, last_relay, last_adv,
                    report, out_file, out_opened, stdout, exception, exit_status >>

\* -------------------------------------------------------- generate_report
all_combinations ==
    << <<TRUE, FALSE, FALSE>>, <<FALSE, TRUE, FALSE>>, <<FALSE, FALSE, TRUE>>,
       <<TRUE, TRUE, FALSE>>, <<TRUE, FALSE, TRUE>>, <<FALSE, TRUE, TRUE>>,
       <<TRUE, TRUE, TRUE>> >>

\* the '+'-joined names, kept as the sequence of joined parts
describe_compromise(combo) ==
    LET parts == (IF combo[1] THEN << "guard" >> ELSE <<>>)
                 \o (IF combo[2] THEN << "middle" >> ELSE <<>>)
                 \o (IF combo[3] THEN << "exit" >> ELSE <<>>)
    IN  IF parts # <<>> THEN parts ELSE << "none" >>

\* a / b rounded to the nearest integer, ties to even (float formatting)
Round(a, b) ==
    LET q == a \div b
        r == 2 * (a % b)
    IN  IF r < b THEN q
        ELSE IF r > b THEN q + 1
        ELSE IF q % 2 = 0 THEN q ELSE q + 1

\* f"{a/b:.2%}" in hundredths of a percent
Pct2(a, b) == Round(10000 * a, b)

\* f"{a/b:.1%}" in tenths of a percent
Pct1(a, b) == Round(1000 * a, b)

\* f"{a/b:.1f}" in tenths
Fixed1(a, b) == Round(10 * a, b)

\* One element of the output list: a label, the vector it names (if any),
\* the number shown and the formatted ratio shown ("" when there is none).
Text(label) == [label |-> label, name |-> <<>>, value |-> <<>>, ratio |-> <<>>]
Value(label, v) == [label |-> label, name |-> <<>>, value |-> << v >>, ratio |-> <<>>]
Ratio(label, name, v, r) == [label |-> label, name |-> name, value |-> << v >>, ratio |-> << r >>]

\* the loop `for combo in all_combinations` from position i on
RECURSIVE Breakdown(_, _, _, _)
Breakdown(i, label, counts, denominator) ==
    IF i > Len(all_combinations) THEN <<>>
    ELSE LET combo == all_combinations[i]
             count == Get(counts, combo, 0)
         IN  (IF count > 0
              THEN << Ratio(label, describe_compromise(combo), count, Pct2(count, denominator)) >>
              ELSE <<>>)
             \o Breakdown(i + 1, label, counts, denominator)

\* sum(e[field] for e in results['epoch_data'])
RECURSIVE SumField(_, _)
SumField(epochs, field) ==
    IF epochs = <<>> THEN 0 ELSE epochs[1][field] + SumField(Tail(epochs), field)

\* sum(1 for exp in results['client_exposures'].values() if len(exp) > 1)
multi_exposure(r) ==
    Cardinality({ c \in DOMAIN r.client_exposures : Cardinality(r.client_exposures[c]) > 1 })

\* The source line of the first division whose divisor is zero, 0 if none.
ZeroDivisionAt(r) ==
    IF r.total_circuits = 0 THEN 129
    ELSE IF r.total_clients = 0 THEN 142
    ELSE IF r.epoch_data = <<>> THEN 0
    ELSE IF SumField(r.epoch_data, "total_relays") = 0 THEN 170
    ELSE IF SumField(r.epoch_data, "total_guards") = 0 THEN 172
    ELSE IF SumField(r.epoch_data, "total_exits") = 0 THEN 173
    ELSE 0

CircuitSection(r) ==
    << Text("CIRCUIT STATISTICS"),
       Value("Total unique circuits", r.total_circuits),
       Ratio("Compromised circuits", <<>>, r.compromised_circuits,
             Pct2(r.compromised_circuits, r.total_circuits)) >>
    \o (IF r.compromised_circuits > 0
        THEN << Text("COMPROMISED CIRCUIT BREAKDOWN") >>
             \o Breakdown(1, "circuits", r.circuit_counts, r.compromised_circuits)
        ELSE <<>>)

ClientSection(r) ==
    << Text("CLIENT STATISTICS"),
       Value("Total clients", r.total_clients),
       Ratio("Clients using compromised circuits", <<>>, r.compromised_clients,
             Pct2(r.compromised_clients, r.total_clients)) >>
    \o (IF r.compromised_clients > 0
        THEN << Text("COMPROMISE TYPES USED BY CLIENTS") >>
             \o Breakdown(1, "clients", r.client_counts, r.total_clients)
             \o (IF multi_exposure(r) > 0
                 THEN << Ratio("Clients with multiple exposure types", <<>>, multi_exposure(r),
                               Pct2(multi_exposure(r), r.compromised_clients)) >>
                 ELSE <<>>)
        ELSE <<>>)

\* Averages are shown in tenths; a ratio of two averages over the same
\* number of epochs is the ratio of the two sums.
RelaySection(r) ==
    IF r.epoch_data # <<>>
    THEN LET num_epochs == Len(r.epoch_data)
             total == SumField(r.epoch_data, "total_relays")
             guards == SumField(r.epoch_data, "total_guards")
             exits == SumField(r.epoch_data, "total_exits")
             adv_guards == SumField(r.epoch_data, "adv_guards")
             adv_exits == SumField(r.epoch_data, "adv_exits")
         IN  << Text("RELAY STATISTICS"),
                Value("Number of epochs (started hours)", num_epochs),
                Text("Average across all epochs"),
                Value("Total relays", Fixed1(total, num_epochs)),
                Ratio("Guard relays", <<>>, Fixed1(guards, num_epochs), Pct1(guards, total)),
                Ratio("Exit relays", <<>>, Fixed1(exits, num_epochs), Pct1(exits, total)),
                Ratio("Adversary guards", <<>>, Fixed1(adv_guards, num_epochs),
                      Pct1(adv_guards, guards)),
                Ratio("Adversary exits", <<>>, Fixed1(adv_exits, num_epochs),
                      Pct1(adv_exits, exits)) >>
    ELSE <<>>

\* '\n'.join(output), kept as the list of joined elements
Report(r) == CircuitSection(r) \o ClientSection(r) \o RelaySection(r)

\* An uncaught exception ends the process with status 1.
Raise(exc) ==
    /\ exception' = exc
    /\ exit_status' = 1
    /\ pc' = "exited"

\* A division by zero while the output list is built.
GenerateReportRaises ==
    /\ pc = "analyzed"
    /\ ZeroDivisionAt(results) # 0
    /\ Raise("ZeroDivisionError")
    /\ UNCHANGED << avars, results, report, out_file, out_opened, stdout >>

\* open(output_file, 'w') fails.
GenerateReportOpenFails ==
    /\ pc = "analyzed"
    /\ ZeroDivisionAt(results) = 0
    /\ Raise("OSError")
    /\ UNCHANGED << avars, results, report, out_file, out_opened, stdout >>

\* The report is built, written to the output path and returned.
GenerateReportWrites ==
    /\ pc = "analyzed"
    /\ ZeroDivisionAt(results) = 0
    /\ report' = Report(results)
    /\ out_opened' = TRUE
    /\ out_file' = report'
    /\ pc' = "reported"
    /\ UNCHANGED << avars, results, stdout, exception, exit_status >>

\* ------------------------------------------------------------- __main__
\* len(sys.argv) != 3
Usage ==
    /\ pc = "start"
    /\ \E argc \in { 1, 2, 4 } :
           /\ argc # 3
           /\ stdout' = Append(stdout, "Usage")
           /\ exit_status' = 1
           /\ pc' = "exited"
    /\ UNCHANGED << avars, results, report, out_file, out_opened, exception >>

\* Variant: the output path is opened for writing before the input is read.
OpenInput_output_first ==
    /\ pc = "start"
    /\ pc' = "scan"
    /\ out_opened' = TRUE
    /\ out_file' = <<>>
    /\ UNCHANGED << avars, results, report, stdout, exception, exit_status >>

\* open(input_file) succeeds
OpenInput ==
    /\ pc = "start"
    /\ pc' = "scan"
    /\ UNCHANGED << avars, dvars >>

\* open(input_file) fails
OpenInputFails ==
    /\ pc = "start"
    /\ Raise("OSError")
    /\ UNCHANGED << avars, results, report, out_file, out_opened, stdout >>

\* reading the next line fails
ReadFails ==
    /\ pc = "scan"
    /\ nread < MaxLines
    /\ Raise("OSError")
    /\ UNCHANGED << avars, results, report, out_file, out_opened, stdout >>

\* print("Analysis complete. ..."), normal exit
Complete ==
    /\ pc = "reported"
    /\ stdout' = Append(stdout, "Analysis complete")
    /\ exit_status' = 0
    /\ pc' = "exited"
    /\ UNCHANGED << avars, results, report, out_file, out_opened, exception >>

Next ==
    \/ Usage
    \/ OpenInput
    \/ OpenInputFails
    \/ ReadFails
    \/ EpochLine
    \/ RelayLine
    \/ AdvLine
    \/ CircuitLine
    \/ SkipLine
    \/ Finalize
    \/ GenerateReportRaises
    \/ GenerateReportOpenFails
    \/ GenerateReportWrites
    \/ Complete

Spec == Init /\ [][Next]_vars

\* ================================================================ claims
\* The handler that consumes a line under the `continue` chain.
Handler(l) ==
    IF l = None THEN "none"
    ELSE IF l.epoch THEN "epoch"
    ELSE IF Matched(l.relay) THEN "relay"
    ELSE IF Matched(l.adv) THEN "adv"
    ELSE IF Matched(l.circuit) THEN "circuit"
    ELSE "skip"

\* An identity carries the marker in at least one position.
Marked(id) == \E i \in 1..3 : endswith_star(id[i])

\* The compromise vector of an identity.
VectorOf(id) == << endswith_star(id[1]), endswith_star(id[2]), endswith_star(id[3]) >>

\* analyze_torfs_output has returned.
Analyzed == results # None

\* C1: a circuit-usage line of client c whose identity triple already
\* occurred in an earlier circuit-usage line of c leaves total_circuits,
\* every per-vector tally and c's exposure set unchanged; a marked circuit
\* read twice in a row for one client as the whole log so far gives
\* total_circuits = 1, compromised_circuits = 1 and one exposure vector.
C1_FirstSeenIdempotent ==
    [][ ( /\ pc = "scan"
          /\ nread' = nread + 1
          /\ Handler(line') = "circuit"
          /\ circuit_id(line'.circuit) \in Get(seen, client_id(line'.circuit), {}) )
        => ( /\ Cardinality(all_circuits') = Cardinality(all_circuits)
             /\ circuits_compromised' = circuits_compromised
             /\ Get(client_exposures', client_id(line'.circuit), {})
                    = Get(client_exposures, client_id(line'.circuit), {})
             /\ ( nread = 1 /\ line' = line /\ is_compromised(line.circuit)
                  => /\ Cardinality(all_circuits') = 1
                     /\ SumValues(circuits_compromised') = 1
                     /\ Cardinality(client_exposures'[client_id(line.circuit)]) = 1 ) )
      ]_vars

\* C1 witness: the second of two lines repeats the marked circuit of the first.
C1_Witness ==
    /\ pc = "scan"
    /\ nread = 2
    /\ repeated
    /\ Handler(line) = "circuit"
    /\ is_compromised(line.circuit)
    /\ all_circuits = { circuit_id(line.circuit) }

\* C2: after every processed line the per-vector tallies sum to the number
\* of marked identities in the cumulative circuit set, so the returned
\* total_circuits is compromised_circuits plus the number of unmarked
\* identities, and compromised_circuits <= total_circuits.
C2_TallySum ==
    /\ SumValues(circuits_compromised) = Cardinality({ id \in all_circuits : Marked(id) })
    /\ Analyzed =>
          /\ results.compromised_circuits = SumValues(results.circuit_counts)
          /\ results.total_circuits =
                results.compromised_circuits
                + Cardinality({ id \in all_circuits : ~ Marked(id) })
          /\ results.compromised_circuits <= results.total_circuits

\* C2 witness: marked and unmarked identities, one of them read twice.
C2_Witness ==
    /\ Analyzed
    /\ nread = MaxLines
    /\ results.total_circuits = 2
    /\ results.compromised_circuits = 1

\* C3: the returned epoch_data holds as many snapshots as epoch markers
\* were read; while scanning, k >= 1 markers have stored k - 1 snapshots
\* and no marker has stored none.
C3_SnapshotCount ==
    /\ pc = "scan" => Len(epoch_data) = (IF markers >= 1 THEN markers - 1 ELSE 0)
    /\ Analyzed => Len(results.epoch_data) = markers

\* C3 witness: two markers read, two snapshots returned.
C3_Witness ==
    /\ Analyzed
    /\ markers = 2
    /\ Len(results.epoch_data) = 2

\* C4 (as claimed): at the end of analysis every client's exposure set is
\* the set of vectors of the marked circuits in its circuit-usage lines,
\* and compromised_clients counts the clients with such a line.
C4_ExposureIsAllVectors ==
    Analyzed =>
        /\ \A c \in DOMAIN seen :
               Get(results.client_exposures, c, {})
                 = { VectorOf(id) : id \in { x \in seen[c] : Marked(x) } }
        /\ results.compromised_clients
             = Cardinality({ c \in DOMAIN seen : \E id \in seen[c] : Marked(id) })

\* C5: total_clients is the largest client index with a non-empty exposure
\* set plus one, 0 when there is none, whatever clients appear in lines
\* that add no exposure.
C5_TotalClients ==
    Analyzed =>
        LET exposed == { c \in DOMAIN seen : Get(results.client_exposures, c, {}) # {} }
        IN  /\ results.total_clients = (IF exposed = {} THEN 0 ELSE Max(exposed) + 1)
            /\ results.compromised_clients = Cardinality(exposed)

\* C5 witness: client 1 is the only exposed client, so total_clients = 2
\* and compromised_clients = 1, with client 0 present in a clean line.
C5_Witness ==
    /\ Analyzed
    /\ DOMAIN seen = { 0, 1 }
    /\ DOMAIN results.client_exposures = { 1 }
    /\ results.total_clients = 2
    /\ results.compromised_clients = 1

\* C6 (as claimed): a log with zero lines is analysed and rendered without
\* a division fault.
C6_EmptyLogRenders ==
    (Analyzed /\ nread = 0 /\ pc = "exited") =>
        /\ exception # "ZeroDivisionError"
        /\ exception = "none" =>
              /\ \E i \in 1..Len(report) : report[i] = Value("Total unique circuits", 0)
              /\ \A i \in 1..Len(report) : report[i] # Text("RELAY STATISTICS")

\* C7 (as claimed): a log with a circuit-usage line and no client exposure
\* is rendered without a division fault.
C7_ZeroClientsRenders ==
    ( /\ Analyzed
      /\ pc = "exited"
      /\ DOMAIN seen # {}
      /\ results.total_clients = 0
      /\ results.compromised_clients = 0 )
    => exception # "ZeroDivisionError"

\* C8 (as claimed): with non-zero circuit and client totals and stored
\* snapshots whose total relays, guards or exits sum to zero, the relay
\* section is rendered without a division fault.
C8_ZeroRelaysRenders ==
    ( /\ Analyzed
      /\ pc = "exited"
      /\ markers >= 1
      /\ results.total_circuits # 0
      /\ results.total_clients # 0
      /\ \/ SumField(results.epoch_data, "total_relays") = 0
         \/ SumField(results.epoch_data, "total_guards") = 0
         \/ SumField(results.epoch_data, "total_exits") = 0 )
    => exception # "ZeroDivisionError"

\* C9: the per-vector client counts sum to at least compromised_clients,
\* with equality exactly when no client has more than one vector.
C9_ClientCountSum ==
    Analyzed =>
        /\ SumValues(results.client_counts) >= results.compromised_clients
        /\ (SumValues(results.client_counts) = results.compromised_clients)
             <=> (\A c \in DOMAIN results.client_exposures :
                     Cardinality(results.client_exposures[c]) <= 1)

\* C9 witness: two clients share a vector and one of them has a second one.
C9_Witness ==
    /\ Analyzed
    /\ results.compromised_clients = 2
    /\ SumValues(results.client_counts) = 3
    /\ \E t \in DOMAIN results.client_counts : results.client_counts[t] = 2

\* C10: the output path is opened only after the analysis has returned;
\* when opening or reading the input fails the run ends with a failure
\* status, the output path never opened and its content unchanged.
C10_NoOutputOnInputFailure ==
    /\ out_opened => (Analyzed /\ pc \in { "reported", "exited" })
    /\ (exception = "OSError" /\ ~ Analyzed) =>
          /\ pc = "exited"
          /\ exit_status = 1
          /\ ~ out_opened
          /\ out_file = OldContent
          /\ report = None

\* C10 witness: a read fails after a line was processed.
C10_Witness ==
    /\ exception = "OSError"
    /\ ~ Analyzed
    /\ nread >= 1
    /\ exit_status = 1
    /\ out_file = OldContent

\* The contents of the stored snapshots.
Snapshots == Contents(epoch_data, relay_stats)

\* The running snapshot that a latest relay-count line lr and a latest
\* adversary-count line la (NoMatch: no such line yet) leave behind.
Expected(lr, la) ==
    [ total_relays |-> IF lr = NoMatch THEN 0 ELSE int(lr[1]),
      total_guards |-> IF lr = NoMatch THEN 0 ELSE int(lr[2]),
      total_exits  |-> IF lr = NoMatch THEN 0 ELSE int(lr[3]),
      adv_guards   |-> IF la = NoMatch THEN 0 ELSE int(la[1]),
      adv_exits    |-> IF la = NoMatch THEN 0 ELSE int(la[2]) ]

\* A step of the loop `for line in f` that processes line'.
LineStep == pc = "scan" /\ nread' = nread + 1

\* The circuit accumulators keep their values in a step.
CircuitsKept ==
    /\ all_circuits' = all_circuits
    /\ circuits_compromised' = circuits_compromised
    /\ client_exposures' = client_exposures

\* The epoch accumulators keep their values in a step.
EpochsKept ==
    /\ epoch_data' = epoch_data
    /\ current_epoch' = current_epoch

\* The identities that occur in the circuit-usage lines read so far.
Identities == UNION { seen[c] : c \in DOMAIN seen }

\* The all-false vector.
NoneVector == << FALSE, FALSE, FALSE >>

\* The sum of the numbers shown by the report elements with a label.
RECURSIVE SumListed(_, _)
SumListed(rep, label) ==
    IF rep = <<>> THEN 0
    ELSE (IF rep[1].label = label THEN rep[1].value[1] ELSE 0) + SumListed(Tail(rep), label)

\* C11: in every step the cumulative circuit set and every client's
\* exposure set only grow: no identity and no vector is removed.
C11_Monotone ==
    [][ /\ all_circuits \subseteq all_circuits'
        /\ \A c \in DOMAIN client_exposures :
              /\ c \in DOMAIN client_exposures'
              /\ client_exposures[c] \subseteq client_exposures'[c]
      ]_vars

\* C11 witness: both clients hold a vector and three identities are stored.
C11_Witness ==
    /\ pc = "scan"
    /\ Cardinality(all_circuits) = 3
    /\ DOMAIN client_exposures = { 0, 1 }
    /\ \E c \in DOMAIN client_exposures : Cardinality(client_exposures[c]) = 2

\* C13: a snapshot stored in epoch_data keeps its field values in every
\* later step, whatever relay-count or adversary-count line is processed.
C13_StoredSnapshotsFrozen ==
    [][ \A i \in 1..Len(epoch_data) :
           /\ i <= Len(epoch_data')
           /\ Deref(epoch_data'[i], relay_stats') = Deref(epoch_data[i], relay_stats)
      ]_vars

\* C13 witness: a statistics line processed after a marker stored a
\* snapshot has made the running snapshot differ from the stored one.
C13_Witness ==
    /\ pc = "scan"
    /\ Len(epoch_data) = 1
    /\ Handler(line) \in { "relay", "adv" }
    /\ Snapshots[1] # relay_stats

\* C14: the running snapshot always holds the values of the latest
\* relay-count and adversary-count lines read so far (0 where there was
\* none) and is not reset by a marker; the snapshot stored by a marker or
\* by the end of input is that of the lines before it, and it stays so.
C14_SnapshotContent ==
    [][ /\ relay_stats = Expected(last_relay, last_adv)
        /\ relay_stats' = Expected(last_relay', last_adv')
        /\ Len(epoch_data') > Len(epoch_data) =>
              /\ Len(epoch_data') = Len(epoch_data) + 1
              /\ Deref(epoch_data'[Len(epoch_data')], relay_stats')
                    = Expected(last_relay, last_adv)
        /\ \A i \in 1..Len(epoch_data) :
              Deref(epoch_data'[i], relay_stats') = Deref(epoch_data[i], relay_stats)
        /\ (pc = "scan" /\ pc' = "analyzed") =>
              results'.epoch_data = Contents(epoch_data', relay_stats')
      ]_vars

\* C14 witness: a relay-count line before the first marker, then two
\* markers: both returned snapshots carry its values.
C14_Witness ==
    /\ Analyzed
    /\ nread = 3
    /\ markers = 2
    /\ Handler(line) = "epoch"
    /\ Len(results.epoch_data) = 2
    /\ results.epoch_data[1].total_relays = 2
    /\ results.epoch_data[2].total_relays = 2

\* C15: a line has the effect of the first handler, in the order epoch
\* marker, relay-count, adversary-count, circuit-usage, whose pattern
\* matches it and of no other; a line that matches none changes nothing.
C15_OneHandlerByPriority ==
    [][ LineStep =>
          LET l == line'
          IN  /\ l.epoch =>
                    /\ current_epoch' = l
                    /\ relay_stats' = relay_stats
                    /\ CircuitsKept
              /\ (~ l.epoch /\ Matched(l.relay)) =>
                    /\ relay_stats'.adv_guards = relay_stats.adv_guards
                    /\ relay_stats'.adv_exits = relay_stats.adv_exits
                    /\ relay_stats'.total_relays = int(l.relay[1])
                    /\ EpochsKept
                    /\ CircuitsKept
              /\ (~ l.epoch /\ ~ Matched(l.relay) /\ Matched(l.adv)) =>
                    /\ relay_stats'.total_relays = relay_stats.total_relays
                    /\ relay_stats'.total_guards = relay_stats.total_guards
                    /\ relay_stats'.total_exits = relay_stats.total_exits
                    /\ relay_stats'.adv_guards = int(l.adv[1])
                    /\ EpochsKept
                    /\ CircuitsKept
              /\ (~ l.epoch /\ ~ Matched(l.relay) /\ ~ Matched(l.adv) /\ Matched(l.circuit)) =>
                    /\ circuit_id(l.circuit) \in all_circuits'
                    /\ relay_stats' = relay_stats
                    /\ EpochsKept
              /\ (~ l.epoch /\ ~ Matched(l.relay) /\ ~ Matched(l.adv) /\ ~ Matched(l.circuit)) =>
                    /\ relay_stats' = relay_stats
                    /\ EpochsKept
                    /\ CircuitsKept
      ]_vars

\* C15 witness: a marker line that also holds a circuit-usage text was
\* read after a relay-count line that also holds an adversary-count text.
C15_Witness ==
    /\ pc = "scan"
    /\ nread = 2
    /\ line = EpochAndCircuit
    /\ current_epoch = line
    /\ all_circuits = {}
    /\ last_relay = RelayAndAdv.relay
    /\ relay_stats.adv_guards = 0

\* C16: a relay-count line overwrites exactly the three relay fields of
\* the running snapshot, an adversary-count line exactly the two adversary
\* fields; the open-epoch marker, the stored snapshots, the circuit set,
\* the tallies and the exposure sets stay as they are.
C16_StatLineFrame ==
    [][ LineStep =>
          /\ Handler(line') = "relay" =>
                /\ relay_stats' = [ total_relays |-> int(line'.relay[1]),
                                    total_guards |-> int(line'.relay[2]),
                                    total_exits  |-> int(line'.relay[3]),
                                    adv_guards   |-> relay_stats.adv_guards,
                                    adv_exits    |-> relay_stats.adv_exits ]
                /\ EpochsKept
                /\ CircuitsKept
          /\ Handler(line') = "adv" =>
                /\ relay_stats' = [ total_relays |-> relay_stats.total_relays,
                                    total_guards |-> relay_stats.total_guards,
                                    total_exits  |-> relay_stats.total_exits,
                                    adv_guards   |-> int(line'.adv[1]),
                                    adv_exits    |-> int(line'.adv[2]) ]
                /\ EpochsKept
                /\ CircuitsKept
      ]_vars

\* C16 witness: an adversary-count line was processed while an epoch was
\* open and relay counts were set; the relay counts are still there.
C16_Witness ==
    /\ pc = "scan"
    /\ nread = 3
    /\ Handler(line) = "adv"
    /\ current_epoch # None
    /\ relay_stats.total_guards = 2
    /\ relay_stats.total_exits = 0
    /\ relay_stats.adv_exits = 2

\* C17: 0 <= clients with more than one vector <= compromised_clients <=
\* total_clients, and the two client percentages shown are at most 100%.
C17_ClientCountOrder ==
    Analyzed =>
        /\ 0 <= multi_exposure(results)
        /\ multi_exposure(results) <= results.compromised_clients
        /\ results.compromised_clients <= results.total_clients
        /\ out_opened =>
              \A i \in 1..Len(report) :
                 report[i].label \in { "Clients using compromised circuits",
                                       "Clients with multiple exposure types" }
                   => report[i].ratio[1] <= 10000

\* C17 witness: client 1 alone is exposed, to two vectors, and the report
\* was written.
C17_Witness ==
    /\ out_opened
    /\ multi_exposure(results) = 1
    /\ results.compromised_clients = 1
    /\ results.total_clients = 2

\* C18: the all-false vector is no key of the tallies and no member of an
\* exposure set, every tally is positive, every client in the exposure
\* mapping has a vector, and the counts of the report's circuit breakdown
\* sum to compromised_circuits.
C18_NoNoneVector ==
    /\ NoneVector \notin DOMAIN circuits_compromised
    /\ \A t \in DOMAIN circuits_compromised : circuits_compromised[t] > 0
    /\ \A c \in DOMAIN client_exposures :
          client_exposures[c] # {} /\ NoneVector \notin client_exposures[c]
    /\ out_opened => SumListed(report, "circuits") = results.compromised_circuits

\* C18 witness: a report over two marked circuits and an unmarked one.
C18_Witness ==
    /\ out_opened
    /\ results.total_circuits = 3
    /\ results.compromised_circuits = 2
    /\ SumListed(report, "circuits") = 2

\* C19: total_circuits and every per-vector tally are determined by the
\* set of identities in the circuit-usage lines: the circuit set is that
\* set and a tally is the number of its identities with that vector,
\* whatever the order, the repetitions and the clients of the lines.
C19_OrderIndependent ==
    /\ all_circuits = Identities
    /\ \A t \in BOOLEAN \X BOOLEAN \X BOOLEAN :
          Get(circuits_compromised, t, 0)
            = Cardinality({ id \in Identities : Marked(id) /\ VectorOf(id) = t })
    /\ Analyzed =>
          /\ results.total_circuits = Cardinality(Identities)
          /\ results.circuit_counts = circuits_compromised

\* C19 witness: clients 0 and 1 used the same single marked circuit and
\* only client 1, whose line came first, has an exposure set.
C19_Witness ==
    /\ Analyzed
    /\ DOMAIN seen = { 0, 1 }
    /\ seen[0] = seen[1]
    /\ Cardinality(Identities) = 1
    /\ DOMAIN results.client_exposures = { 1 }

====
